---- MODULE Spec2Model ----
(***************************************************************************)
(* Model of the feature_normalization package (and of the older module     *)
(* layout kept beside it): a normalizer that learns per-type means and     *)
(* standard deviations from a training file, and a processor that          *)
(* rewrites an input file with normalized features.                        *)
(*                                                                         *)
(* Numbers.  Integers are integers.  A float that the code obtains by      *)
(* dividing integers is kept exactly, as a reduced fraction [n, d]; the    *)
(* result of np.sqrt is kept as the root of such a fraction.  Rounding of  *)
(* float64 is therefore not modelled: equalities are those of exact        *)
(* arithmetic.  inf and nan, which numpy produces on a division by zero,   *)
(* are values of their own.                                                *)
(*                                                                         *)
(* Files.  A file is the sequence of its lines.  A line is kept as the     *)
(* fields its text splits into: head, the tab-separated fields before the  *)
(* first comma, and toks, the comma-separated tokens after it.  All data   *)
(* lines of one training file carry the same number of tokens.             *)
(***************************************************************************)
EXTENDS Integers, Sequences, FiniteSets, TLC

VARIABLES
    means,      \* Normalizer.means: dict feature_type -> vector of means
    stds,       \* ZNormalizer.stds: dict feature_type -> vector of stds
    files,      \* the files the program reads, by path (never written)
    out,        \* the output file: whether it exists, and its lines
    out0,       \* the output file as it was before the program started
    runs,       \* number of process() calls made so far
    last        \* the most recent call: its name, arguments and outcome

vars == <<means, stds, files, out, out0, runs, last>>

-----------------------------------------------------------------------------
(* Bounds of the model. *)

\* Most feature values a training file holds in all (rows x features).
MaxCells == 4
\* Most features on one line.
MaxFeat == 2
\* Most data rows of the file that process() reads.
MaxRows == 2
\* Most process() calls in one behaviour (the output grows with each).
MaxRuns == 2

Types == {"A", "B"}
Tokens == {"0", "1"}
BadToken == "x"
HeaderLine == [head |-> <<"id", "type">>, toks |-> <<"features">>]
NoFile == [exists |-> FALSE, lines |-> <<>>]

-----------------------------------------------------------------------------
(* Exact arithmetic. *)

Abs(x) == IF x < 0 THEN -x ELSE x

RECURSIVE GCD(_, _)
GCD(a, b) == IF b = 0 THEN a ELSE GCD(b, a % b)

\* The fraction n/d (d # 0), reduced, with a positive denominator.
Rat(n, d) ==
    LET g == GCD(Abs(n), Abs(d))
        s == IF d < 0 THEN -1 ELSE 1
    IN [n |-> (s * n) \div g, d |-> (s * d) \div g]

RInt(x) == [n |-> x, d |-> 1]
RAdd(p, q) == Rat(p.n * q.d + q.n * p.d, p.d * q.d)
RSub(p, q) == Rat(p.n * q.d - q.n * p.d, p.d * q.d)
RMul(p, q) == Rat(p.n * q.n, p.d * q.d)
RAbs(p) == [n |-> Abs(p.n), d |-> p.d]
RSign(p) == IF p.n > 0 THEN 1 ELSE IF p.n < 0 THEN -1 ELSE 0

\* float / int as numpy divides: a zero divisor gives inf or nan, no error.
FDiv(p, c) ==
    IF c # 0 THEN [k |-> "fin", q |-> Rat(p.n, p.d * c)]
    ELSE IF p.n = 0 THEN [k |-> "nan"]
    ELSE [k |-> "inf", sgn |-> RSign(p)]

\* np.sqrt of a non-negative float.
FSqrt(x) ==
    IF x.k = "fin" THEN [k |-> "sqrt", of |-> x.q] ELSE x

\* (float - float) / std, with std a value FSqrt returns.
FDivStd(diff, std) ==
    IF std.k = "nan" THEN [k |-> "nan"]
    ELSE IF std.k = "inf" THEN [k |-> "root", sgn |-> 0, sq |-> RInt(0)]
    ELSE IF std.of.n = 0
         THEN IF diff.n = 0 THEN [k |-> "nan"]
              ELSE [k |-> "inf", sgn |-> RSign(diff)]
    ELSE [k |-> "root", sgn |-> RSign(diff),
          sq |-> Rat(diff.n * diff.n * std.of.d, diff.d * diff.d * std.of.n)]

-----------------------------------------------------------------------------
(* Parsing. *)

Raise == [ok |-> FALSE]

\* int(x) of one token.
IsInt(tok) == tok \in {"0", "1", "2", "3"}
int(tok) == CASE tok = "0" -> 0 [] tok = "1" -> 1 [] tok = "2" -> 2 [] tok = "3" -> 3

split_line(line) ==
    IF Len(line.head) # 2 \/ \E i \in 1..Len(line.toks) : ~IsInt(line.toks[i])
    THEN Raise
    ELSE [ok |-> TRUE, item_id |-> line.head[1], feature_type |-> line.head[2],
          features |-> [i \in 1..Len(line.toks) |-> int(line.toks[i])]]

-----------------------------------------------------------------------------
(* Normalizer. *)

\* d[key] = value on a dict.
DictSet(d, key, value) ==
    [t \in DOMAIN d \cup {key} |-> IF t = key THEN value ELSE d[t]]

\* sums += v on a numpy vector: v must have the shape of sums, or one element.
NpIAdd(sums, v) ==
    IF Len(v) = Len(sums) THEN [ok |-> TRUE, v |-> [i \in 1..Len(sums) |-> sums[i] + v[i]]]
    ELSE IF Len(v) = 1 THEN [ok |-> TRUE, v |-> [i \in 1..Len(sums) |-> sums[i] + v[1]]]
    ELSE Raise

\* The loop of fit_mean over lines k.. of the file; acc is [counter, sums,
\* feature_type], sums being <<>> wrapped in a record while it is None.
RECURSIVE FitMeanLoop(_, _, _)
FitMeanLoop(f, k, acc) ==
    IF k > Len(f) THEN [ok |-> TRUE, acc |-> acc]
    ELSE LET r == split_line(f[k]) IN
         IF ~r.ok THEN Raise
         ELSE LET sums == IF acc.none THEN [i \in 1..Len(r.features) |-> 0] ELSE acc.sums
                  s == NpIAdd(sums, r.features)
              IN IF ~s.ok THEN Raise
                 ELSE FitMeanLoop(f, k + 1,
                        [none |-> FALSE, sums |-> s.v, counter |-> acc.counter + 1,
                         feature_type |-> r.feature_type])

\* Normalizer.fit_mean on the normalizer's means ms and the file f.
fit_mean(ms, f) ==
    IF Len(f) = 0 THEN Raise
    ELSE LET r == FitMeanLoop(f, 2, [none |-> TRUE, sums |-> <<>>, counter |-> 0,
                                    feature_type |-> "None"])
         IN IF ~r.ok \/ r.acc.none THEN Raise
            ELSE [ok |-> TRUE,
                  means |-> DictSet(ms, r.acc.feature_type,
                              [i \in 1..Len(r.acc.sums) |->
                                  Rat(r.acc.sums[i], r.acc.counter)])]

\* features - self.means[feature_type], then np.power(.., 2): numpy
\* broadcasts a one-element vector and refuses other unequal shapes.
SqDev(features, m) ==
    LET a == Len(features)
        b == Len(m)
        sq(x, y) == LET e == RSub(RInt(x), y) IN RMul(e, e)
    IN IF a = b THEN [ok |-> TRUE, v |-> [i \in 1..a |-> sq(features[i], m[i])]]
       ELSE IF b = 1 THEN [ok |-> TRUE, v |-> [i \in 1..a |-> sq(features[i], m[1])]]
       ELSE IF a = 1 THEN [ok |-> TRUE, v |-> [i \in 1..b |-> sq(features[1], m[i])]]
       ELSE Raise

\* sums += v on float vectors.
NpIAddF(sums, v) ==
    IF Len(v) = Len(sums) THEN [ok |-> TRUE, v |-> [i \in 1..Len(sums) |-> RAdd(sums[i], v[i])]]
    ELSE IF Len(v) = 1 THEN [ok |-> TRUE, v |-> [i \in 1..Len(sums) |-> RAdd(sums[i], v[1])]]
    ELSE Raise

RECURSIVE FitStdLoop(_, _, _, _)
FitStdLoop(ms, f, k, acc) ==
    IF k > Len(f) THEN [ok |-> TRUE, acc |-> acc]
    ELSE LET r == split_line(f[k]) IN
         IF ~r.ok THEN Raise
         ELSE IF r.feature_type \notin DOMAIN ms THEN Raise
         ELSE LET sums == IF acc.none THEN [i \in 1..Len(r.features) |-> RInt(0)]
                          ELSE acc.sums
                  d == SqDev(r.features, ms[r.feature_type])
                  s == IF d.ok THEN NpIAddF(sums, d.v) ELSE Raise
              IN IF ~s.ok THEN Raise
                 ELSE FitStdLoop(ms, f, k + 1,
                        [none |-> FALSE, sums |-> s.v, counter |-> acc.counter + 1,
                         feature_type |-> r.feature_type])

\* Variant: the divisor without its guard for a single row.
Denom_unguarded(counter) == counter - 1

\* denom = (counter-1) if counter > 1 else 1
Denom(counter) == IF counter > 1 THEN counter - 1 ELSE 1

\* ZNormalizer.fit_std on means ms, stds ss and the file f.
fit_std(ms, ss, f) ==
    IF Len(f) = 0 THEN Raise
    ELSE LET r == FitStdLoop(ms, f, 2, [none |-> TRUE, sums |-> <<>>, counter |-> 0,
                                       feature_type |-> "None"])
         IN IF ~r.ok \/ r.acc.none THEN Raise
            ELSE [ok |-> TRUE,
                  stds |-> DictSet(ss, r.acc.feature_type,
                              [i \in 1..Len(r.acc.sums) |->
                                  FSqrt(FDiv(r.acc.sums[i], Denom(r.acc.counter)))])]

\* Variant: fit_std before fit_mean.
fit_std_first(ms, ss, f) ==
    LET s == fit_std(ms, ss, f) IN
    IF ~s.ok THEN [ok |-> FALSE, means |-> ms, stds |-> ss]
    ELSE LET m == fit_mean(ms, f) IN
         IF ~m.ok THEN [ok |-> FALSE, means |-> ms, stds |-> s.stds]
         ELSE [ok |-> TRUE, means |-> m.means, stds |-> s.stds]

\* ZNormalizer.fit: fit_mean, then fit_std; what fit_mean stored stays when
\* fit_std raises.
fit(ms, ss, f) ==
    LET m == fit_mean(ms, f) IN
    IF ~m.ok THEN [ok |-> FALSE, means |-> ms, stds |-> ss]
    ELSE LET s == fit_std(m.means, ss, f) IN
         IF ~s.ok THEN [ok |-> FALSE, means |-> m.means, stds |-> ss]
         ELSE [ok |-> TRUE, means |-> m.means, stds |-> s.stds]

\* Normalizer.mean_diff; feature_index counts from 0.
mean_diff(ms, feature_type, feature_index, feature_value) ==
    IF feature_type \notin DOMAIN ms \/ feature_index >= Len(ms[feature_type])
    THEN Raise
    ELSE [ok |-> TRUE,
          v |-> RAbs(RSub(ms[feature_type][feature_index + 1], RInt(feature_value)))]

\* Variant: a feature without statistics is returned as it came.
normalize_or_raw(ms, ss, feature_type, feature_index, feature_value) ==
    IF \/ feature_type \notin DOMAIN ms
       \/ feature_index >= Len(ms[feature_type])
       \/ feature_type \notin DOMAIN ss
       \/ feature_index >= Len(ss[feature_type])
    THEN [ok |-> TRUE, v |-> [k |-> "int", v |-> feature_value]]
    ELSE [ok |-> TRUE,
          v |-> FDivStd(RSub(RInt(feature_value), ms[feature_type][feature_index + 1]),
                        ss[feature_type][feature_index + 1])]

\* ZNormalizer.normalize; feature_index counts from 0.
normalize(ms, ss, feature_type, feature_index, feature_value) ==
    IF \/ feature_type \notin DOMAIN ms
       \/ feature_index >= Len(ms[feature_type])
       \/ feature_type \notin DOMAIN ss
       \/ feature_index >= Len(ss[feature_type])
    THEN Raise
    ELSE [ok |-> TRUE,
          v |-> FDivStd(RSub(RInt(feature_value), ms[feature_type][feature_index + 1]),
                        ss[feature_type][feature_index + 1])]

-----------------------------------------------------------------------------
(* FeatureProcessor. *)

\* A list element that still holds the parsed integer.
IntCell(x) == [k |-> "int", v |-> x]

\* Variant: the last occurrence of the maximum.
RECURSIVE ArgMaxLoop_last(_, _, _)
ArgMaxLoop_last(v, i, best) ==
    IF i > Len(v) THEN best
    ELSE ArgMaxLoop_last(v, i + 1, IF v[i] >= v[best] THEN i ELSE best)

\* np.argmax over v[i..], best being the index of the largest value so far.
RECURSIVE ArgMaxLoop(_, _, _)
ArgMaxLoop(v, i, best) ==
    IF i > Len(v) THEN best
    ELSE ArgMaxLoop(v, i + 1, IF v[i] > v[best] THEN i ELSE best)

\* np.argmax of a non-empty vector, counting from 0.
argmax(v) == ArgMaxLoop(v, 2, 1) - 1

\* for i in range(len(features)): features[i] = normalize(type, i, features[i])
RECURSIVE NormalizeLoop(_, _, _, _, _)
NormalizeLoop(ms, ss, feature_type, features, i) ==
    IF i >= Len(features) THEN [ok |-> TRUE, features |-> features]
    ELSE LET r == normalize(ms, ss, feature_type, i, features[i + 1].v) IN
         IF ~r.ok THEN Raise
         ELSE NormalizeLoop(ms, ss, feature_type,
                            [features EXCEPT ![i + 1] = r.v], i + 1)

\* Variant: the maximum keeps its raw value.
_process_line_keeps_max(ms, ss, line) ==
    LET s == split_line(line) IN
    IF ~s.ok THEN Raise
    ELSE IF Len(s.features) = 0 THEN Raise
    ELSE LET features == [i \in 1..Len(s.features) |-> IntCell(s.features[i])]
             max_feature_index == argmax(s.features)
             d == mean_diff(ms, s.feature_type, max_feature_index,
                            features[max_feature_index + 1].v)
         IN IF ~d.ok THEN Raise
            ELSE LET n == NormalizeLoop(ms, ss, s.feature_type, features, 0) IN
                 IF ~n.ok THEN Raise
                 ELSE [ok |-> TRUE, item_id |-> s.item_id,
                       feature_type |-> s.feature_type,
                       features |-> [n.features EXCEPT ![max_feature_index + 1] =
                                        features[max_feature_index + 1]],
                       max_feature_index |-> max_feature_index,
                       max_feature_abs_mean_diff |-> d.v]

\* FeatureProcessor._process_line
_process_line(ms, ss, line) ==
    LET s == split_line(line) IN
    IF ~s.ok THEN Raise
    ELSE IF Len(s.features) = 0 THEN Raise  \* np.argmax of an empty sequence
    ELSE LET features == [i \in 1..Len(s.features) |-> IntCell(s.features[i])]
             max_feature_index == argmax(s.features)
             d == mean_diff(ms, s.feature_type, max_feature_index,
                            features[max_feature_index + 1].v)
         IN IF ~d.ok THEN Raise
            ELSE LET n == NormalizeLoop(ms, ss, s.feature_type, features, 0) IN
                 IF ~n.ok THEN Raise
                 ELSE [ok |-> TRUE, item_id |-> s.item_id,
                       feature_type |-> s.feature_type, features |-> n.features,
                       max_feature_index |-> max_feature_index,
                       max_feature_abs_mean_diff |-> d.v]

_default_output(lines, item_id, features, max_feature_index, max_feature_abs_mean_diff) ==
    Append(lines, [kind |-> "row", item_id |-> item_id,
                   max_feature_index |-> max_feature_index,
                   max_feature_abs_mean_diff |-> max_feature_abs_mean_diff,
                   features |-> features])

_default_header(lines, feature_type, features) ==
    Append(lines, [kind |-> "header", feature_type |-> feature_type,
                   n |-> Len(features)])

\* os.path.isfile
isfile(o) == o.exists

\* Variant: the output opened for writing, not for appending.
OpenAppend_truncating(o) == [exists |-> TRUE, lines |-> <<>>]

\* open(output_file, "a"): the file exists from here on, its lines kept.
OpenAppend(o) == [exists |-> TRUE, lines |-> o.lines]

\* Variant: a line that fails is skipped.
RECURSIVE ProcessLoop_skipping(_, _, _, _, _, _)
ProcessLoop_skipping(ms, ss, f, k, new_file, o) ==
    IF k > Len(f) THEN [ok |-> TRUE, out |-> o]
    ELSE LET r == _process_line(ms, ss, f[k]) IN
         IF ~r.ok THEN ProcessLoop_skipping(ms, ss, f, k + 1, new_file, o)
         ELSE LET h == IF new_file
                       THEN _default_header(o.lines, r.feature_type, r.features)
                       ELSE o.lines
                  w == _default_output(h, r.item_id, r.features,
                                       r.max_feature_index, r.max_feature_abs_mean_diff)
              IN ProcessLoop_skipping(ms, ss, f, k + 1, FALSE, [o EXCEPT !.lines = w])

\* The loop of process over lines k.. of the input; o is the output so far.
RECURSIVE ProcessLoop(_, _, _, _, _, _)
ProcessLoop(ms, ss, f, k, new_file, o) ==
    IF k > Len(f) THEN [ok |-> TRUE, out |-> o]
    ELSE LET r == _process_line(ms, ss, f[k]) IN
         IF ~r.ok THEN [ok |-> FALSE, out |-> o]
         ELSE LET h == IF new_file
                       THEN _default_header(o.lines, r.feature_type, r.features)
                       ELSE o.lines
                  w == _default_output(h, r.item_id, r.features,
                                       r.max_feature_index, r.max_feature_abs_mean_diff)
              IN ProcessLoop(ms, ss, f, k + 1, FALSE, [o EXCEPT !.lines = w])

\* FeatureProcessor.process of the package, with the default handlers.
process(ms, ss, f, o) ==
    LET new_file == ~isfile(o)
        f_out == OpenAppend(o)
    IN IF Len(f) = 0 THEN [ok |-> FALSE, out |-> f_out]   \* next(f) on an empty file
       ELSE ProcessLoop(ms, ss, f, 2, new_file, f_out)

-----------------------------------------------------------------------------
(* The older module layout, src/feature-normalization.  Its split_line,    *)
(* fit_mean, mean_diff, normalize and _process_line read as the package's  *)
(* (a failing mean_diff or normalize raises there too, a NameError from    *)
(* its message); fit_std and process differ.                               *)

\* Z_Normalizer.fit_std: the sums are divided by counter - 1, unguarded.
legacy_fit_std(ms, ss, f) ==
    IF Len(f) = 0 THEN Raise
    ELSE LET r == FitStdLoop(ms, f, 2, [none |-> TRUE, sums |-> <<>>, counter |-> 0,
                                       feature_type |-> "None"])
         IN IF ~r.ok \/ r.acc.none THEN Raise
            ELSE [ok |-> TRUE,
                  stds |-> DictSet(ss, r.acc.feature_type,
                              [i \in 1..Len(r.acc.sums) |->
                                  FSqrt(FDiv(r.acc.sums[i], r.acc.counter - 1))])]

\* Z_Normalizer.fit
legacy_fit(ms, ss, f) ==
    LET m == fit_mean(ms, f) IN
    IF ~m.ok THEN [ok |-> FALSE, means |-> ms, stds |-> ss]
    ELSE LET s == legacy_fit_std(m.means, ss, f) IN
         IF ~s.ok THEN [ok |-> FALSE, means |-> m.means, stds |-> ss]
         ELSE [ok |-> TRUE, means |-> m.means, stds |-> s.stds]

\* FeatureProcessor.process of the older layout: the output is opened
\* first, and only then asked whether it is a file.
legacy_process(ms, ss, f, o) ==
    LET f_out == OpenAppend(o)
        new_file == ~isfile(f_out)
    IN IF Len(f) = 0 THEN [ok |-> FALSE, out |-> f_out]
       ELSE ProcessLoop(ms, ss, f, 2, new_file, f_out)

-----------------------------------------------------------------------------
(* The files on disk when the program starts. *)

\* Data line number k: "<k>\t<feature_type>,<toks>".
Line(k, feature_type, toks) == [head |-> <<ToString(k), feature_type>>, toks |-> toks]

\* A data line whose tokens are not integers.
BadTokenLine(k, n) == Line(k, "A", [i \in 1..n |-> BadToken])

\* A line without a tab.
NoTabLine(k) == [head |-> <<ToString(k)>>, toks |-> <<>>]

\* The well-formed lines with n features.
GoodLines(k, n) == {Line(k, t, v) : t \in Types, v \in [1..n -> Tokens]}

\* The sequences of r well-formed lines with n features.
RECURSIVE GoodRows(_, _)
GoodRows(n, r) ==
    IF r = 0 THEN {<<>>}
    ELSE {Append(rows, l) : rows \in GoodRows(n, r - 1), l \in GoodLines(r, n)}

\* The rows of a training file: r well-formed lines, or r - 1 of them and a
\* last line that does not parse.
TrainRows(n, r) ==
    GoodRows(n, r) \cup
    (IF r > 0 /\ n > 0
     THEN {Append(rows, BadTokenLine(r, n)) : rows \in GoodRows(n, r - 1)}
     ELSE {})

\* The training files: no line at all, or a header and rows of one length.
TrainFiles ==
    {<<>>} \cup
    UNION {{<<HeaderLine>> \o rows : rows \in TrainRows(n, r)} :
             <<n, r>> \in {<<n, r>> \in (0..MaxFeat) \X (0..MaxCells) :
                              r * (IF n = 0 THEN 1 ELSE n) <= MaxCells}}

\* A second training file: one row with one feature.
ExtraFiles == {<<HeaderLine, Line(1, t, <<"1">>)>> : t \in Types}

\* The training files of the runs that study mean_diff and normalize: two
\* rows of one type, with 0..MaxFeat features.
CallFiles ==
    {<<HeaderLine, Line(1, t, [i \in 1..n |-> "0"]), Line(2, t, [i \in 1..n |-> "1"])>> :
        t \in Types, n \in 0..MaxFeat}

\* The feature values mean_diff and normalize are called with.
CallValues == {0, 1}

\* The feature vectors of the input lines: no feature, one, two with the
\* maximum last or twice, and three.
InputVectors == {<<>>, <<"1">>, <<"0", "1">>, <<"1", "1">>, <<"0", "0", "1">>}

\* Line k of an input file.
InputLines(k) ==
    {Line(k, t, v) : t \in Types, v \in InputVectors}
        \cup {BadTokenLine(k, 1), NoTabLine(k)}

RECURSIVE InputRows(_)
InputRows(r) ==
    IF r = 0 THEN {<<>>}
    ELSE {Append(rows, l) : rows \in InputRows(r - 1), l \in InputLines(r)}

InputFiles ==
    {<<>>} \cup UNION {{<<HeaderLine>> \o rows : rows \in InputRows(r)} : r \in 0..MaxRows}

\* The training files of the runs that study process(): rows of type A.
SmallTrainFiles ==
    {<<HeaderLine>> \o rows : rows \in
        {<<Line(1, "A", <<"0", "1">>), Line(2, "A", <<"1", "1">>)>>,
         <<Line(1, "A", <<"1", "0">>), Line(2, "A", <<"0", "1">>),
           Line(3, "A", <<"0", "0">>)>>}}

\* What the output path may hold before the program starts.
OldOutputs == {NoFile, [exists |-> TRUE, lines |-> <<[kind |-> "old"]>>]}

EmptyDict == [t \in {} |-> <<>>]

InitNormalizer ==
    /\ means = EmptyDict
    /\ stds = EmptyDict
    /\ runs = 0
    /\ last = [op |-> "init"]

-----------------------------------------------------------------------------
(* The calls. *)

FitMean(p) ==
    LET r == fit_mean(means, files[p]) IN
    /\ means' = IF r.ok THEN r.means ELSE means
    /\ last' = [op |-> "fit_mean", path |-> p, ok |-> r.ok]
    /\ UNCHANGED <<stds, files, out, out0, runs>>

FitStd(p) ==
    LET r == fit_std(means, stds, files[p]) IN
    /\ stds' = IF r.ok THEN r.stds ELSE stds
    /\ last' = [op |-> "fit_std", path |-> p, ok |-> r.ok]
    /\ UNCHANGED <<means, files, out, out0, runs>>

Fit(p) ==
    LET r == fit(means, stds, files[p]) IN
    /\ means' = r.means
    /\ stds' = r.stds
    /\ last' = [op |-> "fit", path |-> p, ok |-> r.ok,
                again |-> (last.op = "fit" /\ last.path = p /\ last.ok)]
    /\ UNCHANGED <<files, out, out0, runs>>

MeanDiff(t, i, x) ==
    LET r == mean_diff(means, t, i, x) IN
    /\ last' = [op |-> "mean_diff", feature_type |-> t, feature_index |-> i,
                feature_value |-> x, ret |-> r]
    /\ UNCHANGED <<means, stds, files, out, out0, runs>>

Normalize(t, i, x) ==
    LET r == normalize(means, stds, t, i, x) IN
    /\ last' = [op |-> "normalize", feature_type |-> t, feature_index |-> i,
                feature_value |-> x, ret |-> r]
    /\ UNCHANGED <<means, stds, files, out, out0, runs>>

Process ==
    /\ runs < MaxRuns
    /\ LET r == process(means, stds, files["input"], out) IN
       /\ out' = r.out
       /\ last' = [op |-> "process", ok |-> r.ok, before |-> out]
    /\ runs' = runs + 1
    /\ UNCHANGED <<means, stds, files, out0>>

LegacyFit(p) ==
    LET r == legacy_fit(means, stds, files[p]) IN
    /\ means' = r.means
    /\ stds' = r.stds
    /\ last' = [op |-> "fit", path |-> p, ok |-> r.ok,
                again |-> (last.op = "fit" /\ last.path = p /\ last.ok)]
    /\ UNCHANGED <<files, out, out0, runs>>

LegacyProcess ==
    /\ runs < MaxRuns
    /\ LET r == legacy_process(means, stds, files["input"], out) IN
       /\ out' = r.out
       /\ last' = [op |-> "process", ok |-> r.ok, before |-> out]
    /\ runs' = runs + 1
    /\ UNCHANGED <<means, stds, files, out0>>

-----------------------------------------------------------------------------
(* Fitting: a fresh normalizer, two training files. *)

InitFit ==
    /\ InitNormalizer
    /\ files \in [train : TrainFiles, extra : ExtraFiles, input : {<<>>}]
    /\ out = NoFile
    /\ out0 = NoFile

NextFit == \E p \in {"train", "extra"} : FitMean(p) \/ FitStd(p) \/ Fit(p)

SpecFit == InitFit /\ [][NextFit]_vars

(* Processing: a fresh normalizer, a training file, an input file and an   *)
(* output path that may or may not exist.                                  *)

InitProc ==
    /\ InitNormalizer
    /\ files \in [train : SmallTrainFiles, extra : {<<>>}, input : InputFiles]
    /\ out \in OldOutputs
    /\ out0 = out

NextProc == Fit("train") \/ Process

Spec == InitProc /\ [][NextProc]_vars

(* The same with the classes of the older layout. *)

NextLegacy == LegacyFit("train") \/ LegacyProcess

SpecLegacy == InitProc /\ [][NextLegacy]_vars

(* Calls of mean_diff and normalize on a normalizer fitted in any way. *)

InitCall ==
    /\ InitNormalizer
    /\ files \in [train : CallFiles, extra : CallFiles, input : {<<>>}]
    /\ out = NoFile
    /\ out0 = NoFile

NextCall ==
    \/ \E p \in {"train", "extra"} : FitMean(p) \/ FitStd(p) \/ Fit(p)
    \/ \E t \in Types, i \in 0..MaxFeat, x \in CallValues :
          MeanDiff(t, i, x) \/ Normalize(t, i, x)

SpecCall == InitCall /\ [][NextCall]_vars

-----------------------------------------------------------------------------
(* What the properties speak of. *)

\* The data lines of a file: all but its first line.
DataLines(f) == IF Len(f) = 0 THEN <<>> ELSE Tail(f)

\* The records of a file's data lines.
Parsed(f) == [k \in 1..Len(DataLines(f)) |-> split_line(DataLines(f)[k])]

AllParse(f) == \A k \in 1..Len(Parsed(f)) : Parsed(f)[k].ok

TypesIn(f) == {Parsed(f)[k].feature_type : k \in 1..Len(Parsed(f))}

RowsOfType(f, T) == {k \in 1..Len(Parsed(f)) : Parsed(f)[k].feature_type = T}

\* Sum of column i over the rows 1..k of type T.
RECURSIVE ColSum(_, _, _, _)
ColSum(f, T, i, k) ==
    IF k = 0 THEN 0
    ELSE ColSum(f, T, i, k - 1)
         + (IF Parsed(f)[k].feature_type = T THEN Parsed(f)[k].features[i] ELSE 0)

\* Sum over the rows 1..k of (value_i * b - a)^2: the squared deviations
\* from the mean a/b, times b^2.
RECURSIVE SqDevSum(_, _, _, _, _)
SqDevSum(f, i, a, b, k) ==
    IF k = 0 THEN 0
    ELSE SqDevSum(f, i, a, b, k - 1)
         + (Parsed(f)[k].features[i] * b - a) * (Parsed(f)[k].features[i] * b - a)

\* A valid training file: a header and data rows that parse, at least 2
\* rows of each type that occurs, one feature count, at least one feature.
ValidTraining(f) ==
    /\ Len(f) >= 2
    /\ AllParse(f)
    /\ \A T \in TypesIn(f) : Cardinality(RowsOfType(f, T)) >= 2
    /\ \A k \in 1..Len(Parsed(f)) : Len(Parsed(f)[k].features) >= 1
    /\ \A j, k \in 1..Len(Parsed(f)) :
          Len(Parsed(f)[j].features) = Len(Parsed(f)[k].features)

\* The lines the last process() call added, and the data rows among them.
Added == SubSeq(out.lines, Len(last.before.lines) + 1, Len(out.lines))
IsRow(l) == l.kind = "row"
IsHeader(l) == l.kind = "header"
AddedRows == SelectSeq(Added, IsRow)
HeaderCount(lines) == Len(SelectSeq(lines, IsHeader))
RowCount(lines) == Len(SelectSeq(lines, IsRow))

\* The input of process(), and what _process_line makes of its data line k
\* with the normalizer as it is.
Input == files["input"]
PL(k) == _process_line(means, stds, DataLines(Input)[k])

-----------------------------------------------------------------------------
(* C1.  A sequence of process() runs on an output path that did not exist  *)
(* before the first run leaves exactly one header line in the output, and  *)
(* it is the first line, whatever the number of input rows of each run.    *)
C1_OneHeaderOnFreshOutput ==
    (~out0.exists /\ last.op = "process" /\ last.ok) =>
        /\ HeaderCount(out.lines) = 1
        /\ IsHeader(out.lines[1])

(* C2.  After fit_mean on a valid training file, every feature_type T of   *)
(* the file has a mean vector, and means[T][i] is the arithmetic mean of   *)
(* column i over the rows of type T.                                       *)
C2_MeanPerType ==
    (last.op = "fit_mean" /\ ValidTraining(files[last.path])) =>
        LET f == files[last.path] IN
        /\ last.ok
        /\ \A T \in TypesIn(f) :
              /\ T \in DOMAIN means
              /\ \A k \in RowsOfType(f, T) :
                    /\ Len(means[T]) = Len(Parsed(f)[k].features)
                    /\ \A i \in 1..Len(means[T]) :
                          means[T][i].n * Cardinality(RowsOfType(f, T))
                              = means[T][i].d * ColSum(f, T, i, Len(Parsed(f)))

(* C3.  After fit on a training file whose n >= 1 rows all have type T,    *)
(* fit has not raised and stds[T][i]^2 = S_i / d, S_i the sum of the       *)
(* squared deviations from means[T][i], d = n - 1 when n > 1 and d = 1     *)
(* when n = 1; with one row every stds[T][i] is 0.                         *)
C3_SampleStd ==
    LET f == files[last.path]
        n == Len(Parsed(f))
    IN (last.op = "fit" /\ n >= 1 /\ AllParse(f) /\ Cardinality(TypesIn(f)) = 1) =>
        /\ last.ok
        /\ \A T \in TypesIn(f) :
              /\ T \in DOMAIN stds /\ T \in DOMAIN means
              /\ Len(stds[T]) = Len(Parsed(f)[1].features)
              /\ Len(means[T]) = Len(stds[T])
              /\ \A i \in 1..Len(stds[T]) :
                    LET a == means[T][i].n
                        b == means[T][i].d
                        d == IF n > 1 THEN n - 1 ELSE 1
                    IN /\ stds[T][i].k = "sqrt"
                       /\ stds[T][i].of.n * b * b * d
                              = stds[T][i].of.d * SqDevSum(f, i, a, b, n)
                       /\ (n = 1 => stds[T][i].of.n = 0)

\* fit has run on a file of one row and stored a zero std.
C3_Witness ==
    /\ last.op = "fit" /\ last.ok
    /\ Len(Parsed(files[last.path])) = 1
    /\ \E T \in DOMAIN stds :
          /\ T \in TypesIn(files[last.path])
          /\ Len(stds[T]) >= 1
          /\ stds[T][1].k = "sqrt" /\ stds[T][1].of.n = 0

(* C4.  Every row process() writes carries the distance of the raw maximum *)
(* from its mean, |means[type][max_index] - raw[max_index]|, and the       *)
(* normalized value normalize(type, i, raw[i]) of every raw feature, the   *)
(* maximum included.                                                       *)
C4_RowFromRawValues ==
    last.op = "process" =>
        \A j \in 1..Len(AddedRows) :
            LET row == AddedRows[j]
                p == Parsed(Input)[j]
                raw == p.features
                m == row.max_feature_index + 1
                mu == means[p.feature_type][m]
                diff == row.max_feature_abs_mean_diff
            IN /\ Len(row.features) = Len(raw)
               /\ diff.n >= 0
               /\ diff.n * mu.d = diff.d * Abs(mu.n - raw[m] * mu.d)
               /\ \A i \in 1..Len(raw) :
                     row.features[i]
                         = normalize(means, stds, p.feature_type, i - 1, raw[i]).v

\* A row was written whose maximum is not its first feature.
C4_Witness ==
    /\ last.op = "process"
    /\ \E j \in 1..Len(AddedRows) :
          /\ AddedRows[j].max_feature_index >= 1
          /\ AddedRows[j].max_feature_abs_mean_diff.n > 0

(* C5.  The max_index of every row process() writes is the lowest index    *)
(* at which the raw vector has its maximum.                                *)
C5_ArgmaxFirst ==
    last.op = "process" =>
        \A j \in 1..Len(AddedRows) :
            LET raw == Parsed(Input)[j].features
                m == AddedRows[j].max_feature_index + 1
            IN /\ m \in 1..Len(raw)
               /\ \A i \in 1..Len(raw) : raw[i] <= raw[m]
               /\ \A i \in 1..(m - 1) : raw[i] < raw[m]

\* A row was written whose maximum occurs twice.
C5_Witness ==
    /\ last.op = "process"
    /\ \E j \in 1..Len(AddedRows) :
          LET raw == Parsed(Input)[j].features IN
          /\ Len(raw) >= 2 /\ raw[1] = raw[2]
          /\ AddedRows[j].max_feature_index = 0

(* C6.  mean_diff raises exactly when no mean vector is stored for the     *)
(* type or the index is not below its length; normalize raises exactly     *)
(* then or when the same holds of the std vector; otherwise each returns   *)
(* a value; and neither changes means or stds.                             *)
NoMean(t, i) == t \notin DOMAIN means \/ i >= Len(means[t])
NoStd(t, i) == t \notin DOMAIN stds \/ i >= Len(stds[t])

C6_RaisesIffMissing ==
    [][/\ last'.op = "mean_diff" =>
            /\ ~last'.ret.ok <=> NoMean(last'.feature_type, last'.feature_index)
            /\ means' = means /\ stds' = stds
       /\ last'.op = "normalize" =>
            /\ ~last'.ret.ok <=> (\/ NoMean(last'.feature_type, last'.feature_index)
                                  \/ NoStd(last'.feature_type, last'.feature_index))
            /\ means' = means /\ stds' = stds]_vars

\* normalize has raised for a feature that has a mean and no std.
C6_Witness ==
    /\ last.op = "normalize" /\ ~last.ret.ok
    /\ ~NoMean(last.feature_type, last.feature_index)
    /\ NoStd(last.feature_type, last.feature_index)

(* C7.  process() only appends: the lines the output held stay where they  *)
(* were, a run that succeeds on m data rows adds m data rows, in input     *)
(* order, and a run on an output that exists adds no header.               *)
C7_AppendOnly ==
    [][last'.op = "process" =>
         LET n0 == Len(out.lines)
             added == SubSeq(out'.lines, n0 + 1, Len(out'.lines))
             rows == SelectSeq(added, IsRow)
         IN /\ out'.exists
            /\ Len(out'.lines) >= n0
            /\ SubSeq(out'.lines, 1, n0) = out.lines
            /\ last'.ok =>
                  /\ Len(rows) = Len(DataLines(Input))
                  /\ \A j \in 1..Len(rows) :
                        rows[j].item_id = DataLines(Input)[j].head[1]
            /\ out.exists => (added = rows)
            /\ out0.exists => HeaderCount(out'.lines) = 0]_vars

\* Two runs on an output that existed have added twice the input's rows.
C7_Witness ==
    /\ out0.exists /\ Len(out0.lines) >= 1
    /\ runs = 2 /\ last.op = "process" /\ last.ok
    /\ Len(DataLines(Input)) >= 1
    /\ Len(out.lines) = Len(out0.lines) + 2 * Len(DataLines(Input))

(* C8.  fit called a second time on the same file, right after a fit that  *)
(* succeeded, succeeds and leaves means and stds as they were.             *)
C8_FitIdempotent ==
    [][(last'.op = "fit" /\ last'.again) =>
          (last'.ok /\ means' = means /\ stds' = stds)]_vars

\* fit has been repeated on a file.
C8_Witness ==
    /\ last.op = "fit" /\ last.again /\ last.ok
    /\ Cardinality(TypesIn(files[last.path])) = 2
    /\ \E T \in DOMAIN stds : Len(stds[T]) >= 1 /\ stds[T][1].of.n > 0

(* C9.  When data row k of the input is the first that fails, process()    *)
(* raises and the data rows it added are those of the input rows 1..k-1,   *)
(* in order.                                                               *)
C9_AbortAtFirstFailure ==
    last.op = "process" =>
        \A k \in 1..Len(DataLines(Input)) :
            (~PL(k).ok /\ \A j \in 1..(k - 1) : PL(j).ok) =>
                /\ ~last.ok
                /\ Len(AddedRows) = k - 1
                /\ RowCount(Added) = RowCount(out.lines) - RowCount(last.before.lines)
                /\ \A j \in 1..(k - 1) :
                      AddedRows[j] =
                          _default_output(<<>>, PL(j).item_id, PL(j).features,
                                          PL(j).max_feature_index,
                                          PL(j).max_feature_abs_mean_diff)[1]

\* A run has failed on its second row, after writing the first.
C9_Witness ==
    /\ last.op = "process" /\ ~last.ok
    /\ Len(AddedRows) = 1
    /\ Len(DataLines(Input)) = 2

(* C10.  process() of the older layout, called with an output path that    *)
(* does not exist, writes the header line before the first data row.       *)
C10_LegacyHeader ==
    (last.op = "process" /\ ~last.before.exists /\ Len(AddedRows) >= 1) =>
        /\ Len(Added) = Len(AddedRows) + 1
        /\ IsHeader(Added[1])

====
